---- MODULE Spec2Model ----
(***************************************************************************)
(* Authentication and credential lifecycle of the chatbot backend:         *)
(* UserService (app/services/user.py), UtilsService                        *)
(* (app/services/utils.py), ApiKeyService / ApiKeyDao / ApiKey             *)
(* (app/services/api_key.py, app/daos/api_key.py, app/models/api_key.py).  *)
(*                                                                         *)
(* Time is an integer number of ticks.  A JWT is a record of its claims    *)
(* and of whether its signature verifies under settings.SECRET_KEY.  A     *)
(* bcrypt digest is a record of the salt and the password it was made of.  *)
(* A raw API key is an integer; its SHA-256 hex digest is a tagged tuple.  *)
(***************************************************************************)
EXTENDS Integers, FiniteSets, Sequences, TLC

\* ------------------------------------------------------------------ bounds
MaxTime == 2
MaxUsers == 2
NumSalts == 1
AccessTTL == 1
RefreshTTL == 2
MaxKeys == 2
MaxDays == 1
MaxUsage == 2

Emails == {"a@x", "b@x"}
Passwords == {"pw1", "pw2"}
Salts == 1..NumSalts
Times == 0..MaxTime
UserIds == 1..MaxUsers
KeyIds == 1..MaxKeys
Procs == {"v1"}

None == "None"

\* ------------------------------------------------------------------- state
VARIABLES
    now,        \* datetime.utcnow() / datetime.now(timezone.utc), in ticks
    users,      \* rows of table "user"
    custom_ais, \* rows of table "custom_ai" (user_id of each row)
    nextUid,    \* next fresh uuid4 for a user row
    api_keys,   \* rows of table "api_key"
    nextKey,    \* next fresh uuid4 / secrets.token_urlsafe(32) for a key
    secrets,    \* raw secrets returned by create_api_key, by key id
    last,       \* the request to UserService handled by the latest step,
                \* with its response
    gone,       \* history: emails whose user row was deleted at some time
    logged_out, \* history: logout has been handled
    changed,    \* history: emails whose password change_password replaced
    vpc,        \* position of each call in progress: a validate_api_key
                \* call, or a delete / revoke request between its accesses
    vloc,       \* locals of each call in progress
    vlast,      \* the validate_api_key call ended by the latest step
    revoked     \* history: key ids for which revoke_api_key returned True

vars == <<now, users, custom_ais, nextUid, api_keys, nextKey, secrets, last,
          gone, logged_out, changed, vpc, vloc, vlast, revoked>>

sessionVars == <<last, gone, logged_out, changed>>
keyVars == <<api_keys, nextKey, secrets, vpc, vloc, vlast, revoked>>
histVars == <<gone, logged_out, changed>>

\* --------------------------------------------------------- PasswordHasher
\* pwd_context.hash: bcrypt, a fresh random salt on every call
get_password_hash(password, salt) == <<"bcrypt", salt, password>>

\* pwd_context.verify: re-hash the plaintext under the digest's salt
verify_password(plain_password, hashed_password) ==
    get_password_hash(plain_password, hashed_password[2]) = hashed_password

\* -------------------------------------------------------------- the store
\* the value standing for "no row" / a falsy result where a user is expected
NoRow == [id |-> 0, email |-> None, password |-> <<"none", 0, None>>]

\* select(User).filter(User.email == email) ... scalar_one_or_none()
get_by_email(email) ==
    IF \E u \in users : u.email = email
    THEN CHOOSE u \in users : u.email = email
    ELSE NoRow

\* ------------------------------------------------------------- TokenCodec
NoSub == "NoSub"
NoType == "NoType"
Subjects == Emails \cup {NoSub}
TokenTypes == {"access", "refresh", NoType}

\* a compact JWS whose three segments parse
SignedTokens == [kind : {"jwt"}, sub : Subjects, type : TokenTypes,
                 exp : Times, sig : {"good"}]
\* a JWS signed with another key, carrying the claims most worth forging
ForgedTokens == [kind : {"jwt"}, sub : {"a@x"}, type : {"access", "refresh"},
                 exp : {MaxTime}, sig : {"bad"}]
JwtTokens == SignedTokens \cup ForgedTokens
\* cookie absent or empty (None / ""), and a string that is no JWS
MissingToken == [kind |-> "missing", sub |-> NoSub, type |-> NoType,
                 exp |-> 0, sig |-> "bad"]
MalformedToken == [kind |-> "malformed", sub |-> NoSub, type |-> NoType,
                   exp |-> 0, sig |-> "bad"]
Tokens == JwtTokens \cup {MissingToken, MalformedToken}

\* variant of jwt_decode: one tick of leeway on exp
jwt_decode_grace(token, t) ==
    IF token.kind # "jwt" THEN [ok |-> FALSE, reason |-> "Malformed"]
    ELSE IF token.sig # "good" THEN [ok |-> FALSE, reason |-> "SignatureInvalid"]
    ELSE IF token.exp + 1 < t THEN [ok |-> FALSE, reason |-> "Expired"]
    ELSE [ok |-> TRUE, reason |-> "ok"]

\* jose.jwt.decode(token, SECRET_KEY, algorithms=[ALGORITHM]): parse, verify
\* the signature, then validate exp with no leeway (expired iff exp < now).
\* Every failure is a JWTError.
jwt_decode(token, t) ==
    IF token.kind # "jwt" THEN [ok |-> FALSE, reason |-> "Malformed"]
    ELSE IF token.sig # "good" THEN [ok |-> FALSE, reason |-> "SignatureInvalid"]
    ELSE IF token.exp < t THEN [ok |-> FALSE, reason |-> "Expired"]
    ELSE [ok |-> TRUE, reason |-> "ok"]

\* UtilsService.create_token
create_token(subject, token_type, expires_delta, t) ==
    [kind |-> "jwt", sub |-> subject, type |-> token_type,
     exp |-> t + expires_delta, sig |-> "good"]

\* UtilsService.create_access_token(subject, expires_delta=None): called with
\* the keyword arguments kwargs; Python raises TypeError when a keyword is
\* not a parameter of the function or the required parameter is not given.
create_access_token_params == {"subject", "expires_delta"}
create_access_token(kwargs, subject, expires_delta, t) ==
    IF ~(kwargs \subseteq create_access_token_params) \/ "subject" \notin kwargs
    THEN [raised |-> TRUE, token |-> MissingToken]
    ELSE [raised |-> FALSE,
          token |-> create_token(subject, "access", expires_delta, t)]

\* --------------------------------------------------------------- responses
NoUser == 0
NoCreds == [email |-> None, password |-> None]

\* A handled request: op, its inputs (token, creds), the branch the handler took (reason: internal, logged at most)
\* and what the caller sees (status, detail, WWW-Authenticate header, cookies
\* set and deleted, tokens of the body, resolved user).
Response(op, token, creds, reason, status, detail, www, sc, dc, body, user) ==
    [op |-> op, token |-> token, creds |-> creds,
     reason |-> reason, status |-> status, detail |-> detail, www |-> www,
     set_cookies |-> sc, del_cookies |-> dc, body |-> body, user |-> user]

\* what the caller sees of a response
Outward(r) ==
    [status |-> r.status, detail |-> r.detail, www |-> r.www,
     set_cookies |-> r.set_cookies, del_cookies |-> r.del_cookies,
     body |-> r.body]

\* credentials_exception of get_current_user and of refresh_token
credentials_exception(op, token, reason) ==
    Response(op, token, NoCreds, reason, 401,
             "Could not validate credentials", "Bearer", {}, {}, {}, NoUser)

\* an exception that is no HTTPException: the framework answers 500
internal_server_error(op, token, creds, reason) ==
    Response(op, token, creds, reason, 500, "Internal Server Error", None,
             {}, {}, {}, NoUser)

\* response.set_cookie(key=..., value=...)
Cookie(name, value) == [name |-> name, value |-> value]

NoRequest ==
    [op |-> "none", token |-> MissingToken, creds |-> NoCreds,
     reason |-> "none", status |-> 0, detail |-> "none", www |-> None,
     set_cookies |-> {}, del_cookies |-> {}, body |-> {}, user |-> NoUser]

\* ----------------------------------------------------- SessionAuthenticator
\* UserService.authenticate_user
authenticate_user(email, password) ==
    LET _user == get_by_email(email) IN
    IF _user = NoRow THEN NoRow
    ELSE IF ~verify_password(password, _user.password) THEN NoRow
    ELSE _user

\* variant of get_current_user: the claim "type" is not looked at
get_current_user_anytype(access_token) ==
    IF access_token.kind = "missing"
    THEN credentials_exception("get_current_user", access_token, "Missing")
    ELSE LET payload == jwt_decode(access_token, now) IN
    IF ~payload.ok
    THEN credentials_exception("get_current_user", access_token,
                               payload.reason)
    ELSE IF access_token.sub = NoSub
    THEN credentials_exception("get_current_user", access_token, "NoSubject")
    ELSE LET _user == get_by_email(access_token.sub) IN
    IF _user = NoRow
    THEN credentials_exception("get_current_user", access_token, "UserGone")
    ELSE Response("get_current_user", access_token, NoCreds, "ok", 200, "ok",
                  None, {}, {}, {}, _user.id)

\* variant of get_current_user: an expired token gets a detail of its own
get_current_user_leaky(access_token) ==
    IF access_token.kind = "missing"
    THEN credentials_exception("get_current_user", access_token, "Missing")
    ELSE LET payload == jwt_decode(access_token, now) IN
    IF ~payload.ok /\ payload.reason = "Expired"
    THEN Response("get_current_user", access_token, NoCreds, "Expired", 401,
                  "Token has expired", "Bearer", {}, {}, {}, NoUser)
    ELSE IF ~payload.ok
    THEN credentials_exception("get_current_user", access_token,
                               payload.reason)
    ELSE IF access_token.sub = NoSub
    THEN credentials_exception("get_current_user", access_token, "NoSubject")
    ELSE IF access_token.type # "access"
    THEN credentials_exception("get_current_user", access_token, "WrongType")
    ELSE LET _user == get_by_email(access_token.sub) IN
    IF _user = NoRow
    THEN credentials_exception("get_current_user", access_token, "UserGone")
    ELSE Response("get_current_user", access_token, NoCreds, "ok", 200, "ok",
                  None, {}, {}, {}, _user.id)

\* UserService.get_current_user
get_current_user(access_token) ==
    IF access_token.kind = "missing"
    THEN credentials_exception("get_current_user", access_token, "Missing")
    ELSE LET payload == jwt_decode(access_token, now) IN
    IF ~payload.ok
    THEN credentials_exception("get_current_user", access_token,
                               payload.reason)
    ELSE IF access_token.sub = NoSub
    THEN credentials_exception("get_current_user", access_token, "NoSubject")
    ELSE IF access_token.type # "access"
    THEN credentials_exception("get_current_user", access_token, "WrongType")
    ELSE LET _user == get_by_email(access_token.sub) IN
    IF _user = NoRow
    THEN credentials_exception("get_current_user", access_token, "UserGone")
    ELSE Response("get_current_user", access_token, NoCreds, "ok", 200, "ok",
                  None, {}, {}, {}, _user.id)

\* UserService.refresh_token; the call of create_access_token passes the
\* keywords data= and expires_delta=
refresh_kwargs == {"data", "expires_delta"}
refresh_token(token) ==
    IF token.kind = "missing"
    THEN credentials_exception("refresh_token", token, "Missing")
    ELSE LET payload == jwt_decode(token, now) IN
    IF ~payload.ok
    THEN credentials_exception("refresh_token", token, payload.reason)
    ELSE IF token.sub = NoSub
    THEN credentials_exception("refresh_token", token, "NoSubject")
    ELSE IF token.type # "refresh"
    THEN credentials_exception("refresh_token", token, "WrongType")
    ELSE LET _user == get_by_email(token.sub) IN
    IF _user = NoRow
    THEN credentials_exception("refresh_token", token, "UserGone")
    ELSE LET access == create_access_token(refresh_kwargs, _user.email,
                                           AccessTTL, now) IN
    IF access.raised
    THEN internal_server_error("refresh_token", token, NoCreds, "TypeError")
    ELSE Response("refresh_token", token, NoCreds, "ok", 200, "ok", None,
                  {Cookie("access_token", access.token)}, {},
                  {Cookie("access_token", access.token)}, _user.id)

\* variant of login: an unknown email gets a detail of its own
login_enumerating(username, password) ==
    LET creds == [email |-> username, password |-> password] IN
    IF get_by_email(username) = NoRow
    THEN Response("login", MissingToken, creds, "NoUser", 400,
                  "User not found", None, {}, {}, {}, NoUser)
    ELSE IF authenticate_user(username, password) = NoRow
    THEN Response("login", MissingToken, creds, "BadPassword", 400,
                  "Incorrect email or password", None, {}, {}, {}, NoUser)
    ELSE internal_server_error("login", MissingToken, creds, "TypeError")

\* UserService.login; both tokens are asked of create_access_token with the
\* keywords data= and expires_delta=.  Token(**token_data) keeps the fields
\* of the schema Token, which has access_token and token_type only.
login_kwargs == {"data", "expires_delta"}
login(username, password) ==
    LET creds == [email |-> username, password |-> password] IN
    IF get_by_email(username) = NoRow
    THEN Response("login", MissingToken, creds, "NoUser", 400,
                  "Incorrect email or password", None, {}, {}, {}, NoUser)
    ELSE IF authenticate_user(username, password) = NoRow
    THEN Response("login", MissingToken, creds, "BadPassword", 400,
                  "Incorrect email or password", None, {}, {}, {}, NoUser)
    ELSE LET _user == authenticate_user(username, password)
             access == create_access_token(login_kwargs, _user.email,
                                           AccessTTL, now)
             refresh == create_access_token(login_kwargs, _user.email,
                                            RefreshTTL, now) IN
    IF access.raised \/ refresh.raised
    THEN internal_server_error("login", MissingToken, creds, "TypeError")
    ELSE Response("login", MissingToken, creds, "ok", 200, "ok", None,
                  {Cookie("access_token", access.token),
                   Cookie("refresh_token", refresh.token)}, {},
                  {Cookie("access_token", access.token)}, _user.id)

\* UserService.logout
logout ==
    Response("logout", MissingToken, NoCreds, "ok", 200,
             "Logged out successfully", None, {},
             {"access_token", "refresh_token"}, {}, NoUser)

\* ------------------------------------------------------ ApiKeyAuthenticator
\* NULL in a timestamp column, None for expires_in_days
NoTime == -1
NoDays == -1

\* Strings presented as API keys: n names the secret, h counts the SHA-256
\* hex digests taken of it.  The empty string is EmptyKey.
RawKey(n) == [n |-> n, h |-> 0]
EmptyKey == [n |-> 0, h |-> 0]

\* ApiKeyService._hash_key: hashlib.sha256(key.encode()).hexdigest()
_hash_key(key) == [n |-> key.n, h |-> key.h + 1]

\* what a caller may present: nothing, a secret (issued or guessed), or the
\* stored digest of a secret
KeyInputs ==
    {EmptyKey} \cup {RawKey(n) : n \in KeyIds} \cup {_hash_key(RawKey(1))}

\* ApiKey(**api_key_data); name and description carry no behaviour
ApiKeyRow(id, user_id, key_hash, expires_at) ==
    [id |-> id, user_id |-> user_id, key_hash |-> key_hash,
     is_active |-> TRUE, expires_at |-> expires_at, usage_count |-> 0,
     last_used_at |-> NoTime]

NoKeyRow ==
    [id |-> 0, user_id |-> 0, key_hash |-> EmptyKey, is_active |-> FALSE,
     expires_at |-> NoTime, usage_count |-> 0, last_used_at |-> NoTime]

\* ApiKeyDao.get_by_key_hash
get_by_key_hash(key_hash) ==
    IF \E k \in api_keys : k.key_hash = key_hash
    THEN CHOOSE k \in api_keys : k.key_hash = key_hash
    ELSE NoKeyRow

\* ApiKeyDao.get_by_id
get_by_id(api_key_id) ==
    IF \E k \in api_keys : k.id = api_key_id
    THEN CHOOSE k \in api_keys : k.id = api_key_id
    ELSE NoKeyRow

\* variant of is_expired: a key without expires_at counts as expired
is_expired_null_expired(row) ==
    IF row.expires_at = NoTime
    THEN [raised |-> FALSE, value |-> TRUE]
    ELSE [raised |-> TRUE, value |-> now > row.expires_at]

\* ApiKey.is_expired: False without expires_at; otherwise compares
\* datetime.utcnow(), which is naive, with the value of a
\* DateTime(timezone=True) column, which is aware: Python raises TypeError.
is_expired(row) ==
    IF row.expires_at = NoTime
    THEN [raised |-> FALSE, value |-> FALSE]
    ELSE [raised |-> TRUE, value |-> now > row.expires_at]

\* variant of validate_check: is_active is not looked at
validate_check_any_active(api_key) ==
    IF api_key = EmptyKey THEN [outcome |-> "None", rec |-> NoKeyRow]
    ELSE LET rec == get_by_key_hash(_hash_key(api_key)) IN
    IF rec = NoKeyRow THEN [outcome |-> "None", rec |-> NoKeyRow]
    ELSE IF is_expired(rec).raised
    THEN [outcome |-> "TypeError", rec |-> NoKeyRow]
    ELSE IF is_expired(rec).value THEN [outcome |-> "None", rec |-> NoKeyRow]
    ELSE [outcome |-> "proceed", rec |-> rec]

\* ApiKeyService.validate_api_key up to its usage update: the lookup and the
\* three checks
validate_check(api_key) ==
    IF api_key = EmptyKey THEN [outcome |-> "None", rec |-> NoKeyRow]
    ELSE LET rec == get_by_key_hash(_hash_key(api_key)) IN
    IF rec = NoKeyRow THEN [outcome |-> "None", rec |-> NoKeyRow]
    ELSE IF ~rec.is_active THEN [outcome |-> "None", rec |-> NoKeyRow]
    ELSE IF is_expired(rec).raised
    THEN [outcome |-> "TypeError", rec |-> NoKeyRow]
    ELSE IF is_expired(rec).value THEN [outcome |-> "None", rec |-> NoKeyRow]
    ELSE [outcome |-> "proceed", rec |-> rec]

\* variant of update_usage: last_used_at is not written
update_usage_count_only(rec) ==
    IF get_by_id(rec.id) = NoKeyRow
    THEN [found |-> FALSE, rows |-> api_keys, rec |-> rec]
    ELSE LET row == [get_by_id(rec.id) EXCEPT
                        !.usage_count = rec.usage_count + 1] IN
         [found |-> TRUE,
          rows |-> (api_keys \ {get_by_id(rec.id)}) \cup {row},
          rec |-> row]

\* ApiKeyDao.update_usage on the object the session already holds (rec): the
\* row is selected again by id; if it is there, usage_count and last_used_at
\* are written from the held object, committed, and the object is refreshed
update_usage(rec) ==
    IF get_by_id(rec.id) = NoKeyRow
    THEN [found |-> FALSE, rows |-> api_keys, rec |-> rec]
    ELSE LET row == [get_by_id(rec.id) EXCEPT
                        !.usage_count = rec.usage_count + 1,
                        !.last_used_at = now] IN
         [found |-> TRUE,
          rows |-> (api_keys \ {get_by_id(rec.id)}) \cup {row},
          rec |-> row]

\* variant of revoke_api_key: False for a key that is inactive already
revoke_api_key_once(api_key_id) ==
    IF get_by_id(api_key_id) = NoKeyRow \/ ~get_by_id(api_key_id).is_active
    THEN [ok |-> FALSE, rows |-> api_keys]
    ELSE [ok |-> TRUE,
          rows |-> (api_keys \ {get_by_id(api_key_id)}) \cup
                   {[get_by_id(api_key_id) EXCEPT !.is_active = FALSE]}]

\* ApiKeyService.revoke_api_key
revoke_api_key(api_key_id) ==
    IF get_by_id(api_key_id) = NoKeyRow
    THEN [ok |-> FALSE, rows |-> api_keys]
    ELSE [ok |-> TRUE,
          rows |-> (api_keys \ {get_by_id(api_key_id)}) \cup
                   {[get_by_id(api_key_id) EXCEPT !.is_active = FALSE]}]

\* variant of delete_api_key: the row is kept and marked inactive
delete_api_key_soft(api_key_id) ==
    IF get_by_id(api_key_id) = NoKeyRow
    THEN [ok |-> FALSE, rows |-> api_keys]
    ELSE [ok |-> TRUE,
          rows |-> (api_keys \ {get_by_id(api_key_id)}) \cup
                   {[get_by_id(api_key_id) EXCEPT !.is_active = FALSE]}]

\* ApiKeyService.delete_api_key / ApiKeyDao.delete_by_id
delete_api_key(api_key_id) ==
    IF get_by_id(api_key_id) = NoKeyRow
    THEN [ok |-> FALSE, rows |-> api_keys]
    ELSE [ok |-> TRUE, rows |-> api_keys \ {get_by_id(api_key_id)}]

\* a validate_api_key call: its argument, the object its session holds, its
\* result, whether update_usage found no row, and (history) whether the key
\* of the presented secret had been revoked when the call started
Call(api_key, rec, result, skipped, after_revoke) ==
    [api_key |-> api_key, rec |-> rec, result |-> result,
     skipped |-> skipped, after_revoke |-> after_revoke]

NoCall == Call(EmptyKey, NoKeyRow, "pending", FALSE, FALSE)

\* the key issued with the secret api_key has been revoked
RevokedSecret(api_key) ==
    \E s \in secrets : s.raw = api_key /\ s.id \in revoked

\* ------------------------------------------------------------------- Init
Init ==
    /\ now = 0
    /\ users = {}
    /\ custom_ais = {}
    /\ nextUid = 1
    /\ api_keys = {}
    /\ nextKey = 1
    /\ secrets = {}
    /\ last = NoRequest
    /\ gone = {}
    /\ logged_out = FALSE
    /\ changed = {}
    /\ vpc = [p \in Procs |-> "idle"]
    /\ vloc = [p \in Procs |-> NoCall]
    /\ vlast = NoCall
    /\ revoked = {}

\* ---------------------------------------------------------------- actions
\* the clock advances
Tick ==
    /\ now < MaxTime
    /\ now' = now + 1
    /\ last' = NoRequest
    /\ vlast' = NoCall
    /\ UNCHANGED <<users, custom_ais, nextUid, histVars, api_keys, nextKey,
                   secrets, vpc, vloc, revoked>>

\* UserService.register_user; ai_fails: CustomAIDao.create raises after the
\* user row was committed
RegisterUser ==
    \E email \in Emails, password \in Passwords, salt \in Salts,
       ai_fails \in BOOLEAN :
       /\ nextUid <= MaxUsers
       /\ IF get_by_email(email) # NoRow
          THEN /\ last' = Response("register_user", MissingToken, NoCreds,
                                   "Exists", 400, "User already exists", None, {}, {},
                                   {}, NoUser)
               /\ UNCHANGED <<users, custom_ais, nextUid>>
          ELSE /\ users' = users \cup
                     {[id |-> nextUid, email |-> email,
                       password |-> get_password_hash(password, salt)]}
               /\ nextUid' = nextUid + 1
               /\ IF ai_fails
                  THEN /\ UNCHANGED custom_ais
                       /\ last' = Response("register_user", MissingToken, NoCreds,
                              "CustomAIFailed", 500,
                              "Failed to complete registration", None, {},
                              {}, {}, NoUser)
                  ELSE /\ custom_ais' = custom_ais \cup {nextUid}
                       /\ last' = Response("register_user", MissingToken, NoCreds,
                              "ok", 201, "User created successfully", None, {}, {}, {},
                              nextUid)
       /\ UNCHANGED <<now, gone, logged_out, changed, keyVars>>

\* UserService.delete_user_by_id; the rows of the user's api keys and
\* custom AI go with it (cascade="all, delete-orphan", ondelete="CASCADE")
DeleteUser ==
    \E user_id \in UserIds :
       /\ IF \E u \in users : u.id = user_id
          THEN LET _user == CHOOSE u \in users : u.id = user_id IN
               /\ users' = users \ {_user}
               /\ custom_ais' = custom_ais \ {user_id}
               /\ api_keys' = {k \in api_keys : k.user_id # user_id}
               /\ gone' = gone \cup {_user.email}
               /\ last' = Response("delete_user_by_id", MissingToken, NoCreds,
                                   "ok", 200, "User deleted successfully!!!", None,
                                   {}, {}, {}, user_id)
          ELSE /\ last' = Response("delete_user_by_id", MissingToken, NoCreds,
                                   "NotFound", 404,
                                   "User with the given id does not exist!!!",
                                   None, {}, {}, {}, NoUser)
               /\ UNCHANGED <<users, custom_ais, api_keys, gone>>
       /\ vlast' = NoCall
       /\ UNCHANGED <<now, nextUid, logged_out, changed, nextKey, secrets, vpc, vloc,
                      revoked>>

Login ==
    \E email \in Emails, password \in Passwords :
       /\ last' = login(email, password)
       /\ UNCHANGED <<now, users, custom_ais, nextUid, gone, logged_out, changed,
                      keyVars>>

RefreshToken ==
    \E token \in Tokens :
       /\ last' = refresh_token(token)
       /\ UNCHANGED <<now, users, custom_ais, nextUid, gone, logged_out, changed,
                      keyVars>>

GetCurrentUser ==
    \E token \in Tokens :
       /\ last' = get_current_user(token)
       /\ UNCHANGED <<now, users, custom_ais, nextUid, gone, logged_out, changed,
                      keyVars>>

Logout ==
    /\ last' = logout
    /\ logged_out' = TRUE
    /\ UNCHANGED <<now, users, custom_ais, nextUid, gone, changed, keyVars>>

Next ==
    \/ Tick
    \/ RegisterUser
    \/ DeleteUser
    \/ Login
    \/ RefreshToken
    \/ GetCurrentUser
    \/ Logout

Spec == Init /\ [][Next]_vars

\* the expires_at that create_api_key computes at time t: "if
\* expires_in_days:" is false for None and for 0
new_expires_at(expires_in_days, t) ==
    IF expires_in_days # NoDays /\ expires_in_days # 0
    THEN t + expires_in_days
    ELSE NoTime

\* ApiKeyService.create_api_key for an existing user
CreateApiKey ==
    \E u \in users, expires_in_days \in {NoDays} \cup (0..MaxDays) :
       /\ nextKey <= MaxKeys
       /\ LET raw_key == RawKey(nextKey)
              expires_at == new_expires_at(expires_in_days, now) IN
          /\ api_keys' = api_keys \cup
                {ApiKeyRow(nextKey, u.id, _hash_key(raw_key), expires_at)}
          /\ secrets' = secrets \cup {[id |-> nextKey, raw |-> raw_key]}
       /\ nextKey' = nextKey + 1
       /\ last' = NoRequest
       /\ vlast' = NoCall
       /\ UNCHANGED <<now, users, custom_ais, nextUid, histVars, vpc, vloc,
                      revoked>>

\* ApiKeyService.validate_api_key, first part: lookup and checks; the call
\* returns None or raises here, or goes on to the usage update
ValidateLookup ==
    \E p \in DOMAIN vpc, api_key \in KeyInputs :
       /\ vpc[p] = "idle"
       /\ LET check == validate_check(api_key) IN
          /\ check.rec.usage_count < MaxUsage
          /\ IF check.outcome = "proceed"
             THEN /\ vpc' = [vpc EXCEPT ![p] = "update"]
                  /\ vloc' = [vloc EXCEPT ![p] =
                        Call(api_key, check.rec, "pending", FALSE,
                             RevokedSecret(api_key))]
                  /\ vlast' = NoCall
             ELSE /\ vlast' = Call(api_key, NoKeyRow, check.outcome, FALSE,
                                   RevokedSecret(api_key))
                  /\ UNCHANGED <<vpc, vloc>>
       /\ last' = NoRequest
       /\ UNCHANGED <<now, users, custom_ais, nextUid, histVars, api_keys,
                      nextKey, secrets, revoked>>

\* ApiKeyService.validate_api_key, second part: update_usage, then return
\* the record
ValidateUpdate ==
    \E p \in DOMAIN vpc :
       /\ vpc[p] = "update"
       /\ LET upd == update_usage(vloc[p].rec) IN
          /\ api_keys' = upd.rows
          /\ vlast' = Call(vloc[p].api_key, upd.rec, "record", ~upd.found,
                           vloc[p].after_revoke)
       /\ vpc' = [vpc EXCEPT ![p] = "idle"]
       /\ vloc' = [vloc EXCEPT ![p] = NoCall]
       /\ last' = NoRequest
       /\ UNCHANGED <<now, users, custom_ais, nextUid, histVars, nextKey,
                      secrets, revoked>>

RevokeApiKey ==
    \E api_key_id \in KeyIds :
       /\ api_keys' = revoke_api_key(api_key_id).rows
       /\ revoked' = IF revoke_api_key(api_key_id).ok
                     THEN revoked \cup {api_key_id}
                     ELSE revoked
       /\ last' = NoRequest
       /\ vlast' = NoCall
       /\ UNCHANGED <<now, users, custom_ais, nextUid, histVars, nextKey,
                      secrets, vpc, vloc>>

DeleteApiKey ==
    \E api_key_id \in KeyIds :
       /\ api_keys' = delete_api_key(api_key_id).rows
       /\ last' = NoRequest
       /\ vlast' = NoCall
       /\ UNCHANGED <<now, users, custom_ais, nextUid, histVars, nextKey,
                      secrets, vpc, vloc, revoked>>

NextKeys ==
    \/ Tick
    \/ DeleteUser
    \/ CreateApiKey
    \/ ValidateLookup
    \/ ValidateUpdate
    \/ RevokeApiKey
    \/ DeleteApiKey

\* two users have registered (RegisterUser twice)
InitKeys ==
    /\ now = 0
    /\ users = {[id |-> 1, email |-> "a@x",
                 password |-> get_password_hash("pw1", 1)],
                [id |-> 2, email |-> "b@x",
                 password |-> get_password_hash("pw2", 1)]}
    /\ custom_ais = {1, 2}
    /\ nextUid = 3
    /\ api_keys = {}
    /\ nextKey = 1
    /\ secrets = {}
    /\ last = NoRequest
    /\ gone = {}
    /\ logged_out = FALSE
    /\ changed = {}
    /\ vpc = [p \in Procs |-> "idle"]
    /\ vloc = [p \in Procs |-> NoCall]
    /\ vlast = NoCall
    /\ revoked = {}

SpecKeys == InitKeys /\ [][NextKeys]_vars

\* ------------------------------------------- overlapping validations
\* two requests validate at the same time, each in its own session
RaceProcs == {"v1", "v2"}

InitRace ==
    /\ now = 0
    /\ users = {[id |-> 1, email |-> "a@x",
                 password |-> get_password_hash("pw1", 1)],
                [id |-> 2, email |-> "b@x",
                 password |-> get_password_hash("pw2", 1)]}
    /\ custom_ais = {1, 2}
    /\ nextUid = 3
    /\ api_keys = {}
    /\ nextKey = 1
    /\ secrets = {}
    /\ last = NoRequest
    /\ gone = {}
    /\ logged_out = FALSE
    /\ changed = {}
    /\ vpc = [p \in RaceProcs |-> "idle"]
    /\ vloc = [p \in RaceProcs |-> NoCall]
    /\ vlast = NoCall
    /\ revoked = {}

NextRace ==
    \/ CreateApiKey
    \/ ValidateLookup
    \/ ValidateUpdate

SpecRace == InitRace /\ [][NextRace]_vars

\* ------------------------------------------ a validation that is cut short
\* ApiKeyService.validate_api_key, the usage update as far as its commit:
\* update_usage selects the row by id, returns None if it is gone, otherwise
\* writes usage_count and last_used_at and commits
ValidateCommit ==
    \E p \in DOMAIN vpc :
       /\ vpc[p] = "update"
       /\ LET upd == update_usage(vloc[p].rec) IN
          /\ api_keys' = upd.rows
          /\ vloc' = [vloc EXCEPT ![p] =
                Call(vloc[p].api_key, vloc[p].rec, "pending", ~upd.found,
                     vloc[p].after_revoke)]
       /\ vpc' = [vpc EXCEPT ![p] = "committed"]
       /\ vlast' = NoCall
       /\ last' = NoRequest
       /\ UNCHANGED <<now, users, custom_ais, nextUid, histVars, nextKey,
                      secrets, revoked>>

\* ApiKeyService.validate_api_key, after the commit: the object is refreshed
\* from the store and the record is returned
ValidateReturn ==
    \E p \in DOMAIN vpc :
       /\ vpc[p] = "committed"
       /\ vlast' = Call(vloc[p].api_key,
                        IF vloc[p].skipped THEN vloc[p].rec
                        ELSE get_by_id(vloc[p].rec.id),
                        "record", vloc[p].skipped, vloc[p].after_revoke)
       /\ vpc' = [vpc EXCEPT ![p] = "idle"]
       /\ vloc' = [vloc EXCEPT ![p] = NoCall]
       /\ last' = NoRequest
       /\ UNCHANGED <<now, users, custom_ais, nextUid, histVars, api_keys,
                      nextKey, secrets, revoked>>

\* the request is cancelled, or the store fails, at an await of
\* validate_api_key: before update_usage, or at the refresh that follows the
\* commit. Nothing in validate_api_key or update_usage catches it, and
\* nothing that was committed is taken back
ValidateCancel ==
    \E p \in DOMAIN vpc :
       /\ vpc[p] \in {"update", "committed"}
       /\ vlast' = Call(vloc[p].api_key, vloc[p].rec, "cancelled",
                        vloc[p].skipped, vloc[p].after_revoke)
       /\ vpc' = [vpc EXCEPT ![p] = "idle"]
       /\ vloc' = [vloc EXCEPT ![p] = NoCall]
       /\ last' = NoRequest
       /\ UNCHANGED <<now, users, custom_ais, nextUid, histVars, api_keys,
                      nextKey, secrets, revoked>>

NextCancel ==
    \/ Tick
    \/ CreateApiKey
    \/ ValidateLookup
    \/ ValidateCommit
    \/ ValidateReturn
    \/ ValidateCancel

SpecCancel == InitKeys /\ [][NextCancel]_vars

\* ---------------------------------------------------- routes of /api-keys
\* variant of ApiKeyOut: the schema carries key_hash as well
ApiKeyOut_with_hash(row) ==
    [id |-> row.id, user_id |-> row.user_id, is_active |-> row.is_active,
     expires_at |-> row.expires_at, last_used_at |-> row.last_used_at,
     usage_count |-> row.usage_count, key_hash |-> row.key_hash]

\* schemas ApiKeyInDB / ApiKeyOut: the fields of a row that a response
\* carries (name, description and created_at carry no behaviour); key_hash
\* is not among them
ApiKeyOut(row) ==
    [id |-> row.id, user_id |-> row.user_id, is_active |-> row.is_active,
     expires_at |-> row.expires_at, last_used_at |-> row.last_used_at,
     usage_count |-> row.usage_count]

\* schema ApiKeyWithSecret: ApiKeyOut and the raw key
ApiKeyWithSecret(row, raw_key) ==
    [id |-> row.id, user_id |-> row.user_id, is_active |-> row.is_active,
     expires_at |-> row.expires_at, last_used_at |-> row.last_used_at,
     usage_count |-> row.usage_count, key |-> raw_key]

\* variant of get_user_api_keys: the keys of every user
get_user_api_keys_all(user_id) == api_keys

\* ApiKeyService.get_user_api_keys / ApiKeyDao.get_by_user_id
get_user_api_keys(user_id) == {k \in api_keys : k.user_id = user_id}

\* a handled request to a route of /api-keys: the route, the authenticated
\* user, the key id of the path, the branch taken, and what the caller sees
KeyResponse(op, user, api_key_id, reason, status, detail, body) ==
    [op |-> op, user |-> user, api_key_id |-> api_key_id, reason |-> reason,
     status |-> status, detail |-> detail, body |-> body]

RouteOps == {"POST /api-keys", "GET /api-keys", "DELETE /api-keys/{id}",
             "POST /api-keys/{id}/revoke"}

\* POST /api-keys
RouteCreateApiKey ==
    \E current_user \in users, expires_in_days \in {NoDays} \cup (0..MaxDays) :
       /\ nextKey <= MaxKeys
       /\ LET raw_key == RawKey(nextKey)
              row == ApiKeyRow(nextKey, current_user.id, _hash_key(raw_key),
                               new_expires_at(expires_in_days, now)) IN
          /\ api_keys' = api_keys \cup {row}
          /\ secrets' = secrets \cup {[id |-> nextKey, raw |-> raw_key]}
          /\ last' = KeyResponse("POST /api-keys", current_user.id, nextKey,
                                 "ok", 201, None,
                                 {ApiKeyWithSecret(row, raw_key)})
       /\ nextKey' = nextKey + 1
       /\ vlast' = NoCall
       /\ UNCHANGED <<now, users, custom_ais, nextUid, histVars, vpc, vloc,
                      revoked>>

\* GET /api-keys
RouteListApiKeys ==
    \E current_user \in users :
       /\ last' = KeyResponse("GET /api-keys", current_user.id, 0, "ok", 200,
                              None,
                              {ApiKeyOut(k) :
                                  k \in get_user_api_keys(current_user.id)})
       /\ vlast' = NoCall
       /\ UNCHANGED <<now, users, custom_ais, nextUid, histVars, api_keys,
                      nextKey, secrets, vpc, vloc, revoked>>

\* DELETE /api-keys/{api_key_id}
RouteDeleteApiKey ==
    \E current_user \in users, api_key_id \in KeyIds :
       /\ IF ~\E k \in get_user_api_keys(current_user.id) : k.id = api_key_id
          THEN /\ last' = KeyResponse("DELETE /api-keys/{id}",
                              current_user.id, api_key_id, "Forbidden", 403,
                              "Not authorized to delete this API key", {})
               /\ UNCHANGED api_keys
          ELSE /\ api_keys' = delete_api_key(api_key_id).rows
               /\ last' = IF delete_api_key(api_key_id).ok
                          THEN KeyResponse("DELETE /api-keys/{id}",
                                  current_user.id, api_key_id, "ok", 204,
                                  None, {})
                          ELSE KeyResponse("DELETE /api-keys/{id}",
                                  current_user.id, api_key_id, "NotFound",
                                  404, "API key not found", {})
       /\ vlast' = NoCall
       /\ UNCHANGED <<now, users, custom_ais, nextUid, histVars, nextKey,
                      secrets, vpc, vloc, revoked>>

\* POST /api-keys/{api_key_id}/revoke
RouteRevokeApiKey ==
    \E current_user \in users, api_key_id \in KeyIds :
       /\ IF ~\E k \in get_user_api_keys(current_user.id) : k.id = api_key_id
          THEN /\ last' = KeyResponse("POST /api-keys/{id}/revoke",
                              current_user.id, api_key_id, "Forbidden", 403,
                              "Not authorized to revoke this API key", {})
               /\ UNCHANGED <<api_keys, revoked>>
          ELSE /\ api_keys' = revoke_api_key(api_key_id).rows
               /\ IF revoke_api_key(api_key_id).ok
                  THEN /\ revoked' = revoked \cup {api_key_id}
                       /\ last' = KeyResponse("POST /api-keys/{id}/revoke",
                               current_user.id, api_key_id, "ok", 200, None,
                               {ApiKeyOut(k) : k \in
                                   {r \in revoke_api_key(api_key_id).rows :
                                       r.id = api_key_id}})
                  ELSE /\ UNCHANGED revoked
                       /\ last' = KeyResponse("POST /api-keys/{id}/revoke",
                               current_user.id, api_key_id, "NotFound", 404,
                               "API key not found", {})
       /\ vlast' = NoCall
       /\ UNCHANGED <<now, users, custom_ais, nextUid, histVars, nextKey,
                      secrets, vpc, vloc>>

NextRoutes ==
    \/ RouteCreateApiKey
    \/ RouteListApiKeys
    \/ RouteDeleteApiKey
    \/ RouteRevokeApiKey
    \/ ValidateLookup
    \/ ValidateUpdate

SpecRoutes == InitKeys /\ [][NextRoutes]_vars

\* ------------------------------- delete and revoke, one store access a step
DeleteOp == "DELETE /api-keys/{id}"
RevokeOp == "POST /api-keys/{id}/revoke"

\* the locals of a delete or revoke request between its two store accesses:
\* the route, current_user.id, the api_key_id of the path and the list
\* api_keys that get_user_api_keys returned
RouteCall(op, user, api_key_id, seen) ==
    [op |-> op, user |-> user, api_key_id |-> api_key_id, seen |-> seen]

\* variant of the ownership test: an id that no key has passes as well
owns_or_absent(keys, api_key_id) ==
    \/ \E api_key \in keys : api_key.id = api_key_id
    \/ get_by_id(api_key_id) = NoKeyRow

\* any(str(api_key.id) == str(api_key_id) for api_key in api_keys)
owns(keys, api_key_id) ==
    \E api_key \in keys : api_key.id = api_key_id

\* delete_api_key / revoke_api_key of the router, first store access:
\* get_user_api_keys and the ownership test, 403 when it fails
RouteCheckOwnership ==
    \E p \in DOMAIN vpc, current_user \in users, api_key_id \in KeyIds,
       op \in {DeleteOp, RevokeOp} :
       /\ vpc[p] = "idle"
       /\ LET keys == get_user_api_keys(current_user.id) IN
          IF ~owns(keys, api_key_id)
          THEN /\ last' = KeyResponse(op, current_user.id, api_key_id,
                              "Forbidden", 403,
                              IF op = DeleteOp
                              THEN "Not authorized to delete this API key"
                              ELSE "Not authorized to revoke this API key",
                              {})
               /\ UNCHANGED <<vpc, vloc>>
          ELSE /\ vpc' = [vpc EXCEPT ![p] = "operation"]
               /\ vloc' = [vloc EXCEPT ![p] =
                     RouteCall(op, current_user.id, api_key_id, keys)]
               /\ last' = NoRequest
       /\ vlast' = NoCall
       /\ UNCHANGED <<now, users, custom_ais, nextUid, histVars, api_keys,
                      nextKey, secrets, revoked>>

\* delete_api_key / revoke_api_key of the router, second store access: the
\* operation, 404 when it reports no row; revoke then reads the row again
RouteOperation ==
    \E p \in DOMAIN vpc :
       /\ vpc[p] = "operation"
       /\ LET c == vloc[p]
              r == IF c.op = DeleteOp THEN delete_api_key(c.api_key_id)
                   ELSE revoke_api_key(c.api_key_id) IN
          /\ api_keys' = r.rows
          /\ revoked' = IF c.op = RevokeOp /\ r.ok
                        THEN revoked \cup {c.api_key_id}
                        ELSE revoked
          /\ last' = IF ~r.ok
                     THEN KeyResponse(c.op, c.user, c.api_key_id, "NotFound",
                                      404, "API key not found", {})
                     ELSE IF c.op = DeleteOp
                     THEN KeyResponse(c.op, c.user, c.api_key_id, "ok", 204,
                                      None, {})
                     ELSE KeyResponse(c.op, c.user, c.api_key_id, "ok", 200,
                                      None,
                                      {ApiKeyOut(k) : k \in
                                          {x \in r.rows :
                                              x.id = c.api_key_id}})
       /\ vpc' = [vpc EXCEPT ![p] = "idle"]
       /\ vloc' = [vloc EXCEPT ![p] = NoCall]
       /\ vlast' = NoCall
       /\ UNCHANGED <<now, users, custom_ais, nextUid, histVars, nextKey,
                      secrets>>

NextRouteSteps ==
    \/ RouteCreateApiKey
    \/ RouteCheckOwnership
    \/ RouteOperation

SpecRouteSteps == InitRace /\ [][NextRouteSteps]_vars

\* ------------------------------------------------- routes of /custom-ai
\* custom_ai.user_id is unique: the custom AI of a user is named by the
\* id of the user
\* POST /custom-ai/
CreateCustomAI ==
    \E current_user \in users, user_id \in UserIds :
       /\ IF user_id # current_user.id
          THEN /\ last' = Response("create_custom_ai", MissingToken, NoCreds,
                     "Forbidden", 403,
                     "You can only create a custom AI for your own account",
                     None, {}, {}, {}, current_user.id)
               /\ UNCHANGED custom_ais
          ELSE IF current_user.id \in custom_ais
          THEN /\ last' = Response("create_custom_ai", MissingToken, NoCreds,
                     "Exists", 400, "User already has a custom AI", None,
                     {}, {}, {}, current_user.id)
               /\ UNCHANGED custom_ais
          ELSE /\ last' = Response("create_custom_ai", MissingToken, NoCreds,
                     "ok", 201, None, None, {}, {}, {}, current_user.id)
               /\ custom_ais' = custom_ais \cup {current_user.id}
       /\ UNCHANGED <<now, users, nextUid, histVars, keyVars>>

\* DELETE /custom-ai/{custom_ai_id}
DeleteCustomAI ==
    \E current_user \in users, custom_ai_id \in UserIds :
       /\ IF custom_ai_id \notin custom_ais
          THEN /\ last' = Response("delete_custom_ai", MissingToken, NoCreds,
                     "NotFound", 404, "Custom AI not found", None, {}, {},
                     {}, current_user.id)
               /\ UNCHANGED custom_ais
          ELSE IF custom_ai_id # current_user.id
          THEN /\ last' = Response("delete_custom_ai", MissingToken, NoCreds,
                     "Forbidden", 403,
                     "You don't have permission to delete this custom AI",
                     None, {}, {}, {}, current_user.id)
               /\ UNCHANGED custom_ais
          ELSE /\ last' = Response("delete_custom_ai", MissingToken, NoCreds,
                     "ok", 204, None, None, {}, {}, {}, current_user.id)
               /\ custom_ais' = custom_ais \ {custom_ai_id}
       /\ UNCHANGED <<now, users, nextUid, histVars, keyVars>>

NextAI ==
    \/ RegisterUser
    \/ DeleteUser
    \/ CreateCustomAI
    \/ DeleteCustomAI

SpecAI == Init /\ [][NextAI]_vars

\* ------------------------------------------------------------ CSRF guard
CSRF_PROTECTED_METHODS == {"POST", "PUT", "PATCH", "DELETE"}
Methods == CSRF_PROTECTED_METHODS \cup {"GET", "OPTIONS"}

\* values of the X-CSRF-Token header and of the csrf_token cookie: absent
\* (None), empty, or a token
CsrfValues == {None, "", "t1", "t2"}

\* Python's "not v" for an optional string
Falsy(v) == v = None \/ v = ""

\* request.url.path as its sequence of segments. The routes of the user
\* router under API_V1_STR, a route of another router, and two paths that
\* no router registers
LoginPath == <<"api", "v1", "users", "login">>
RefreshPath == <<"api", "v1", "users", "refresh-token">>
Paths ==
    {LoginPath, RefreshPath, <<"api", "v1", "users", "logout">>,
     <<"api", "v1", "api-keys">>, <<"auth", "token">>, <<"auth", "refresh">>}

\* path.endswith("/" + segment): the last segment is the given one
endswith(path, segment) == Len(path) > 0 /\ path[Len(path)] = segment

\* the outcome of a guard: the request goes on, or it is answered
CsrfAllow == [allowed |-> TRUE, status |-> 0, detail |-> None]
CsrfReject(detail) == [allowed |-> FALSE, status |-> 403, detail |-> detail]

\* CSRFMiddleware.dispatch
dispatch(method, path, csrf_token_header, csrf_token_cookie) ==
    IF method \notin CSRF_PROTECTED_METHODS THEN CsrfAllow
    ELSE IF endswith(path, "token") \/ endswith(path, "refresh")
    THEN CsrfAllow
    ELSE IF Falsy(csrf_token_header) \/ Falsy(csrf_token_cookie)
    THEN CsrfReject("CSRF token missing or invalid")
    ELSE IF csrf_token_header # csrf_token_cookie
    THEN CsrfReject("CSRF token verification failed")
    ELSE CsrfAllow

\* CSRFProtection.__call__: csrf_token_cookie is a parameter of the call
\* (default None); the cookie of the request is read only when it is falsy
CSRFProtection(method, csrf_token_header, cookie, csrf_token_cookie) ==
    LET used == IF Falsy(csrf_token_cookie) THEN cookie
                ELSE csrf_token_cookie IN
    IF method \notin CSRF_PROTECTED_METHODS THEN CsrfAllow
    ELSE IF Falsy(csrf_token_header) \/ Falsy(used)
    THEN CsrfReject("CSRF token missing or invalid")
    ELSE IF csrf_token_header # used
    THEN CsrfReject("CSRF token verification failed")
    ELSE CsrfAllow

\* a request seen by a guard, and the outcome
CsrfRequest(op, method, path, header, cookie, arg, out) ==
    [op |-> op, method |-> method, path |-> path, header |-> header,
     cookie |-> cookie, arg |-> arg, out |-> out]

Dispatch ==
    \E method \in Methods, path \in Paths, header \in CsrfValues,
       cookie \in CsrfValues :
       /\ last' = CsrfRequest("CSRFMiddleware.dispatch", method, path,
                              header, cookie, None,
                              dispatch(method, path, header, cookie))
       /\ UNCHANGED <<now, users, custom_ais, nextUid, histVars, keyVars>>

\* CSRFProtection.__call__ does not look at the path
CsrfProtectionCall ==
    \E method \in Methods, header \in CsrfValues, cookie \in CsrfValues,
       csrf_token_cookie \in CsrfValues :
       /\ last' = CsrfRequest("CSRFProtection.__call__", method, <<>>,
                     header, cookie, csrf_token_cookie,
                     CSRFProtection(method, header, cookie,
                                    csrf_token_cookie))
       /\ UNCHANGED <<now, users, custom_ais, nextUid, histVars, keyVars>>

\* the middleware that main.py adds to the application: add_middleware is
\* called for CORSMiddleware; the call for CSRFMiddleware is commented out
user_middleware == {"CORSMiddleware"}

\* what the middleware stack of the application does with a request before
\* the router, its dependencies (authentication) and the handler run.
\* CORSMiddleware passes every request that is not a preflight.
app(method, path, csrf_token_header, csrf_token_cookie) ==
    IF "CSRFMiddleware" \in user_middleware
    THEN dispatch(method, path, csrf_token_header, csrf_token_cookie)
    ELSE CsrfAllow

\* a request to the assembled application
AppRequest ==
    \E method \in Methods, path \in Paths, header \in CsrfValues,
       cookie \in CsrfValues :
       /\ last' = CsrfRequest("app", method, path, header, cookie, None,
                              app(method, path, header, cookie))
       /\ UNCHANGED <<now, users, custom_ais, nextUid, histVars, keyVars>>

NextCsrf ==
    \/ Dispatch
    \/ CsrfProtectionCall
    \/ AppRequest

SpecCsrf == Init /\ [][NextCsrf]_vars

\* ------------------------------------------------ identity and password
\* the cookies a request carries: any access_token, and no refresh_token or
\* a signed one of the longest life
RefreshCookies ==
    {MissingToken} \cup
    {t \in SignedTokens : t.type = "refresh" /\ t.sub # NoSub /\ t.exp = MaxTime}
Cookies == [access_token : Tokens, refresh_token : RefreshCookies]

\* variant of the dependency: when the access token is refused the
\* refresh_token cookie is tried
get_current_user_or_refresh(cookies) ==
    IF get_current_user(cookies.access_token).status = 200
    THEN get_current_user(cookies.access_token)
            @@ ("cookies" :> cookies)
    ELSE get_current_user_anytype(cookies.refresh_token)
            @@ ("cookies" :> cookies)

\* the dependency get_current_user: of the request's cookies only
\* access_token = Cookie(None) is read and handed to the service
get_current_user_dependency(cookies) ==
    get_current_user(cookies.access_token) @@ ("cookies" :> cookies)

\* UserService.change_password for the resolved user current_user
change_password(current_user, old_password, new_password, salt) ==
    LET creds == [email |-> current_user.email, password |-> old_password] IN
    IF ~verify_password(old_password, current_user.password)
    THEN [rows |-> users,
          response |-> Response("change_password", MissingToken, creds,
                          "BadOldPassword", 400, "Incorrect old password!!!",
                          None, {}, {}, {}, NoUser)]
    ELSE [rows |-> (users \ {current_user}) \cup
                   {[current_user EXCEPT
                        !.password = get_password_hash(new_password, salt)]},
          response |-> Response("change_password", MissingToken, creds,
                          "ok", 200, "Password updated successfully!!!",
                          None, {}, {}, {}, current_user.id)]

\* a request to a route that depends on get_current_user
CurrentUserRequest ==
    \E cookies \in Cookies :
       /\ last' = get_current_user_dependency(cookies)
       /\ UNCHANGED <<now, users, custom_ais, nextUid, histVars, keyVars>>

ChangePassword ==
    \E current_user \in users, old_password \in Passwords,
       new_password \in Passwords, salt \in Salts :
       LET r == change_password(current_user, old_password, new_password,
                                salt) IN
       /\ users' = r.rows
       /\ last' = r.response
       /\ changed' = IF r.response.status = 200
                     THEN changed \cup {current_user.email}
                     ELSE changed
       /\ UNCHANGED <<now, custom_ais, nextUid, gone, logged_out, keyVars>>

NextIdentity ==
    \/ Tick
    \/ RegisterUser
    \/ DeleteUser
    \/ CurrentUserRequest

SpecIdentity == Init /\ [][NextIdentity]_vars

NextAccount ==
    \/ Tick
    \/ RegisterUser
    \/ ChangePassword
    \/ RefreshToken
    \/ GetCurrentUser

SpecAccount == Init /\ [][NextAccount]_vars

\* ================================================================== claims
\* a token whose signature verifies and whose exp has not passed
SignedUnexpired(token) ==
    token.kind = "jwt" /\ token.sig = "good" /\ token.exp >= now

SessionOps == {"get_current_user", "refresh_token"}
WantedType(op) == IF op = "get_current_user" THEN "access" ELSE "refresh"

\* C1: type confusion is always rejected: get_current_user answers 401 and
\* resolves no user for every signed, unexpired token whose type is not
\* "access", and refresh_token answers 401 and issues nothing for every
\* signed, unexpired token whose type is not "refresh".
C1_TypeConfusionRejected ==
    (/\ last.op \in SessionOps
     /\ SignedUnexpired(last.token)
     /\ last.token.type # WantedType(last.op))
    => (/\ last.status = 401
        /\ last.user = NoUser
        /\ last.body = {}
        /\ last.set_cookies = {})

\* a refresh token of an existing user was presented as an access token
C1_Witness ==
    /\ last.op = "get_current_user"
    /\ SignedUnexpired(last.token)
    /\ last.token.type = "refresh"
    /\ get_by_email(last.token.sub) # NoRow
    /\ last.status = 401

\* C2: strict expiry: a correctly signed token whose exp has passed
\* (now > exp) is rejected by decode, so get_current_user and refresh_token
\* answer 401, resolve no user and issue no token from it.
C2_StrictExpiry ==
    /\ \A token \in SignedTokens :
          token.exp < now => ~jwt_decode(token, now).ok
    /\ (/\ last.op \in SessionOps
        /\ last.token.kind = "jwt"
        /\ last.token.sig = "good"
        /\ last.token.exp < now)
       => (/\ last.status = 401
           /\ last.user = NoUser
           /\ last.body = {}
           /\ last.set_cookies = {})

\* a rightly typed token of an existing user was presented one tick after
\* its exp
C2_Witness ==
    /\ last.op \in SessionOps
    /\ last.token.kind = "jwt"
    /\ last.token.sig = "good"
    /\ last.token.type = WantedType(last.op)
    /\ get_by_email(last.token.sub) # NoRow
    /\ last.token.exp + 1 = now
    /\ last.status = 401

\* C3: a login that fails because no user has the identifier and a login
\* that fails because the password does not verify give the caller the same
\* outcome (status, detail, headers, cookies, body).
LoginFailures == {"NoUser", "BadPassword"}
C3_LoginFailureIndistinguishable ==
    /\ \A e1 \in Emails, e2 \in Emails, p1 \in Passwords, p2 \in Passwords :
          (/\ login(e1, p1).reason = "NoUser"
           /\ login(e2, p2).reason = "BadPassword")
          => Outward(login(e1, p1)) = Outward(login(e2, p2))
    /\ (last.op = "login" /\ last.reason \in LoginFailures)
       => \A e \in Emails, p \in Passwords :
             login(e, p).reason \in LoginFailures
             => Outward(login(e, p)) = Outward(last)

\* a login has just failed on the password while another identifier has no
\* user
C3_Witness ==
    /\ last.op = "login"
    /\ last.reason = "BadPassword"
    /\ \E e \in Emails, p \in Passwords : login(e, p).reason = "NoUser"

\* C4: login with correct credentials answers 200 with an access and a
\* refresh token, distinct, each decodable, both in the body and in the
\* cookies, both with the user's id as subject.
C4_LoginReturnsTokenPair ==
    (/\ last.op = "login"
     /\ authenticate_user(last.creds.email, last.creds.password) # NoRow)
    => (/\ last.status = 200
        /\ \E a \in last.body, r \in last.body :
              /\ a.name = "access_token" /\ a.value.type = "access"
              /\ r.name = "refresh_token" /\ r.value.type = "refresh"
              /\ a.value # r.value
              /\ jwt_decode(a.value, now).ok /\ jwt_decode(r.value, now).ok
              /\ a.value.sub = ToString(last.user)
              /\ r.value.sub = ToString(last.user)
              /\ {a, r} \subseteq last.set_cookies)

\* C5: refresh with an unexpired refresh token of an existing user yields a
\* new access token with the same subject, expiring later than the access
\* token issued by the login that issued the refresh token.
C5_RefreshYieldsLaterAccessToken ==
    (/\ last.op = "refresh_token"
     /\ SignedUnexpired(last.token)
     /\ last.token.type = "refresh"
     /\ get_by_email(last.token.sub) # NoRow)
    => (/\ last.status = 200
        /\ \E a \in last.body :
              /\ a.name = "access_token"
              /\ a.value.sub = last.token.sub
              /\ a.value.exp > last.token.exp - RefreshTTL + AccessTTL)

\* C6: once the user named by a token's subject has been deleted, no later
\* call accepts the still unexpired, rightly typed token: get_current_user
\* answers 401, refresh_token fails and issues no token.
C6_DeletedUserTokenRejected ==
    (/\ last.op \in SessionOps
     /\ SignedUnexpired(last.token)
     /\ last.token.type = WantedType(last.op)
     /\ last.token.sub \in gone)
    => (/\ last.op = "get_current_user" => last.status = 401
        /\ last.status >= 400
        /\ last.user = NoUser
        /\ last.body = {})

\* C7: logout deletes both cookies and invalidates no token: after a logout
\* an unexpired token of an existing user is still accepted, an access token
\* by get_current_user and a refresh token by refresh_token.
C7_TokensSurviveLogout ==
    /\ last.op = "logout"
       => last.del_cookies = {"access_token", "refresh_token"}
    /\ (/\ logged_out
        /\ last.op \in SessionOps
        /\ SignedUnexpired(last.token)
        /\ last.token.type = WantedType(last.op)
        /\ get_by_email(last.token.sub) # NoRow)
       => (/\ last.status = 200
           /\ last.user = get_by_email(last.token.sub).id)

\* C8: every rejection by get_current_user gives the caller the same
\* response, 401 with one detail and one header, whatever the reason.
Rejections == {"Missing", "Malformed", "SignatureInvalid", "Expired",
               "WrongType", "NoSubject", "UserGone"}
C8_RejectionsIndistinguishable ==
    /\ \A t \in Tokens :
          get_current_user(t).reason \in Rejections \cup {"ok"}
    /\ (last.op = "get_current_user" /\ last.reason # "ok")
       => (/\ last.status = 401
           /\ \A t \in Tokens :
                 get_current_user(t).reason # "ok"
                 => Outward(get_current_user(t)) = Outward(last))

\* a token was rejected because its user is gone, in a state where every
\* other reason of rejection can be provoked as well
C8_Witness ==
    /\ last.op = "get_current_user"
    /\ last.reason = "UserGone"
    /\ \A reason \in Rejections :
          \E t \in Tokens : get_current_user(t).reason = reason

\* the call ended by the latest step presented the raw secret of key id
Presented(id) ==
    /\ vlast.result # "pending"
    /\ \E s \in secrets : s.id = id /\ s.raw = vlast.api_key

\* key id was issued without expiry and has been neither revoked nor
\* deleted, nor has its owner been deleted
LiveForever(id) ==
    /\ id \notin revoked
    /\ get_by_id(id) # NoKeyRow
    /\ get_by_id(id).expires_at = NoTime

\* C9: a key issued with no expiry validates as long as it is neither
\* revoked nor deleted: every validate_api_key call with its raw secret
\* returns the record of that key, right after issuance and after any other
\* operations that leave the key and its owner in place.
C9_NoExpiryKeyValidates ==
    \A id \in KeyIds :
       (Presented(id) /\ LiveForever(id))
       => (/\ vlast.result = "record"
           /\ ~vlast.skipped
           /\ vlast.rec.id = id
           /\ vlast.rec.key_hash = _hash_key(vlast.api_key))

\* a key without expiry validates for at least the second time, at a later
\* instant, after another key was issued and revoked
C9_Witness ==
    \E id \in KeyIds :
       /\ Presented(id)
       /\ LiveForever(id)
       /\ vlast.result = "record"
       /\ vlast.rec.usage_count >= 2
       /\ now >= 1
       /\ revoked # {}

\* C10: revocation is final: no operation makes a revoked key active
\* again, and every validate_api_key call that starts after
\* revoke_api_key returned true for the key of the presented secret
\* returns None without going on to the usage update.
C10_RevocationFinal ==
    /\ \A k \in api_keys : k.id \in revoked => ~k.is_active
    /\ \A p \in Procs : vpc[p] = "update" => ~vloc[p].after_revoke
    /\ (vlast.result # "pending" /\ vlast.after_revoke)
       => vlast.result = "None"

\* the secret of a key that validated before, was revoked and is still
\* stored, is presented at a later instant and gets None
C10_Witness ==
    \E id \in revoked :
       /\ Presented(id)
       /\ vlast.after_revoke
       /\ vlast.result = "None"
       /\ get_by_id(id) # NoKeyRow
       /\ get_by_id(id).usage_count >= 1
       /\ get_by_id(id).last_used_at < now

\* key id is stored and active, and its expires_at is set and has passed
ExpiredActive(id) ==
    /\ get_by_id(id) # NoKeyRow
    /\ get_by_id(id).is_active
    /\ get_by_id(id).expires_at # NoTime
    /\ get_by_id(id).expires_at < now

\* C11: a validate_api_key call with the secret of a key that is active
\* and whose expires_at has passed returns None, not an error.
C11_ExpiredKeyReturnsNone ==
    \A id \in KeyIds :
       (Presented(id) /\ ExpiredActive(id)) => vlast.result = "None"

\* key id is stored and active with the expires_at that create_api_key
\* gives a key issued with expires_in_days = 0
IssuedWithZeroDays(id) ==
    /\ get_by_id(id) # NoKeyRow
    /\ get_by_id(id).is_active
    /\ \E t \in Times : get_by_id(id).expires_at = new_expires_at(0, t)

\* C12: a key issued with expires_in_days = 0 never validates: every
\* validate_api_key call with its secret returns None.
C12_ZeroDaysNeverValidates ==
    \A id \in KeyIds :
       (Presented(id) /\ IssuedWithZeroDays(id)) => vlast.result = "None"

RowAfter(id) ==
    IF \E k \in api_keys' : k.id = id
    THEN CHOOSE k \in api_keys' : k.id = id
    ELSE NoKeyRow

\* the step ends a validate_api_key call
CallEnds == vlast'.result # "pending"

\* C14: usage metering without overlapping validations: a key starts with
\* usage_count 0 and no last_used_at; a validate_api_key call that returns
\* the record of a stored key adds exactly 1 to that key's usage_count,
\* sets its last_used_at to the current time and changes nothing else; a
\* call that ends without a record changes no row; usage_count never
\* decreases.
C14_UsageMetering ==
    [][/\ \A k \in api_keys' :
             get_by_id(k.id) = NoKeyRow
             => (k.usage_count = 0 /\ k.last_used_at = NoTime)
       /\ \A k \in api_keys :
             RowAfter(k.id) # NoKeyRow
             => RowAfter(k.id).usage_count >= k.usage_count
       /\ (CallEnds /\ vlast'.result = "record" /\ ~vlast'.skipped)
          => (/\ get_by_id(vlast'.rec.id) # NoKeyRow
              /\ api_keys' = (api_keys \ {get_by_id(vlast'.rec.id)}) \cup
                    {[get_by_id(vlast'.rec.id) EXCEPT
                        !.usage_count = @ + 1, !.last_used_at = now]}
              /\ vlast'.rec = RowAfter(vlast'.rec.id))
       /\ (CallEnds /\ vlast'.result # "record")
          => api_keys' = api_keys
       /\ (~CallEnds \/ vlast'.skipped)
          => \A k \in api_keys :
                RowAfter(k.id) # NoKeyRow
                => /\ RowAfter(k.id).usage_count = k.usage_count
                   /\ RowAfter(k.id).last_used_at = k.last_used_at
      ]_vars

\* a key is validated for the second time, at a later instant than the
\* first, while another key has never been used
C14_Witness ==
    /\ vlast.result = "record"
    /\ ~vlast.skipped
    /\ vlast.rec.usage_count = 2
    /\ vlast.rec.last_used_at = now
    /\ now = 2
    /\ \E k \in api_keys : k.id # vlast.rec.id /\ k.usage_count = 0

\* C15: revoke_api_key is idempotent: for a stored key it returns True and
\* leaves the row inactive and otherwise as it was, also when the key was
\* inactive before, in which case nothing changes; for an id without a row
\* it returns False and changes nothing.
C15_RevokeIdempotent ==
    \A id \in KeyIds :
       IF get_by_id(id) = NoKeyRow
       THEN /\ ~revoke_api_key(id).ok
            /\ revoke_api_key(id).rows = api_keys
       ELSE /\ revoke_api_key(id).ok
            /\ revoke_api_key(id).rows =
                  (api_keys \ {get_by_id(id)}) \cup
                  {[get_by_id(id) EXCEPT !.is_active = FALSE]}
            /\ ~get_by_id(id).is_active
               => revoke_api_key(id).rows = api_keys

\* one key has been revoked after it was used and is still stored, while
\* another id has no row
C15_Witness ==
    /\ \E id \in revoked :
          /\ get_by_id(id) # NoKeyRow
          /\ ~get_by_id(id).is_active
          /\ get_by_id(id).usage_count >= 1
    /\ \E id \in KeyIds : get_by_id(id) = NoKeyRow

\* C16: delete_api_key removes the row: for a stored key it returns True
\* and no row with that id remains, the other rows being untouched; for an
\* id without a row (never issued, or deleted before) it returns False and
\* changes nothing. Once the row is gone the key is not listed for any
\* user and a validate_api_key call that starts then returns None.
C16_DeleteRemovesRow ==
    /\ \A id \in KeyIds :
          IF get_by_id(id) = NoKeyRow
          THEN /\ ~delete_api_key(id).ok
               /\ delete_api_key(id).rows = api_keys
          ELSE /\ delete_api_key(id).ok
               /\ delete_api_key(id).rows = api_keys \ {get_by_id(id)}
               /\ \A k \in delete_api_key(id).rows : k.id # id
    /\ \A s \in secrets :
          get_by_id(s.id) = NoKeyRow
          => /\ \A u \in UserIds :
                   \A k \in get_user_api_keys(u) : k.id # s.id
             /\ (Presented(s.id) /\ ~vlast.skipped) => vlast.result = "None"

\* the secret of a key that was deleted without being revoked, no user
\* having been deleted, is presented and gets None
C16_Witness ==
    \E s \in secrets :
       /\ get_by_id(s.id) = NoKeyRow
       /\ gone = {}
       /\ Presented(s.id)
       /\ vlast.result = "None"
       /\ ~vlast.skipped
       /\ s.id \notin revoked

OwnerOps == {"DELETE /api-keys/{id}", "POST /api-keys/{id}/revoke"}

\* C17: ownership is enforced on revoke and delete: a request of user U
\* for a stored key of another user is answered 403 and changes no row,
\* and no request of U to a route of /api-keys changes or removes a row of
\* another user.
C17_OwnershipEnforced ==
    [][last'.op \in RouteOps
       => /\ (/\ last'.op \in OwnerOps
              /\ get_by_id(last'.api_key_id) # NoKeyRow
              /\ get_by_id(last'.api_key_id).user_id # last'.user)
             => (/\ last'.status = 403
                 /\ api_keys' = api_keys
                 /\ revoked' = revoked)
          /\ \A k \in api_keys : k.user_id # last'.user => k \in api_keys'
      ]_vars

\* a user asked to revoke the active key of another user, who has used
\* it, and got 403; the key is still stored and active
C17_Witness ==
    /\ last.op = "POST /api-keys/{id}/revoke"
    /\ last.status = 403
    /\ get_by_id(last.api_key_id) # NoKeyRow
    /\ get_by_id(last.api_key_id).user_id # last.user
    /\ get_by_id(last.api_key_id).is_active
    /\ get_by_id(last.api_key_id).usage_count >= 1
    /\ get_user_api_keys(last.user) # {}

CsrfOps == {"CSRFMiddleware.dispatch", "CSRFProtection.__call__"}

\* the path is one that the middleware exempts
Exempt(path) == endswith(path, "token") \/ endswith(path, "refresh")

\* C18: a guard lets a request with a mutating method pass exactly when
\* the X-CSRF-Token header and the csrf_token cookie are both present,
\* non-empty and equal, and answers 403 otherwise; a request with any
\* other method passes whatever header and cookie are. (For the
\* middleware: on the paths it does not exempt.)
C18_CsrfCheck ==
    (last.op \in CsrfOps /\ ~Exempt(last.path))
    => IF last.method \in CSRF_PROTECTED_METHODS
       THEN /\ last.out.allowed
               <=> (/\ ~Falsy(last.header)
                    /\ ~Falsy(last.cookie)
                    /\ last.header = last.cookie)
            /\ ~last.out.allowed => last.out.status = 403
       ELSE last.out.allowed

\* C19: login and refresh are exempt from the CSRF check: a POST to the
\* login route and a POST to the refresh route of the user router pass the
\* middleware whatever header and cookie are.
C19_LoginRefreshExempt ==
    (/\ last.op = "CSRFMiddleware.dispatch"
     /\ last.method = "POST"
     /\ last.path \in {LoginPath, RefreshPath})
    => last.out.allowed

\* C20: CSRF rejections are indistinguishable: every request that a guard
\* rejects gets 403 with the detail "CSRF token missing or invalid",
\* whether a token is missing or header and cookie differ.
C20_CsrfRejectionsIndistinguishable ==
    (last.op \in CsrfOps /\ ~last.out.allowed)
    => last.out = CsrfReject("CSRF token missing or invalid")

\* C21: every successful login sets a csrf_token cookie next to the
\* access_token and refresh_token cookies: a login with the email and the
\* password of a registered user is answered 200 with the three cookies.
C21_LoginMintsCsrfToken ==
    (/\ last.op = "login"
     /\ authenticate_user(last.creds.email, last.creds.password) # NoRow)
    => (/\ last.status = 200
        /\ \A name \in {"access_token", "refresh_token", "csrf_token"} :
              \E c \in last.set_cookies : c.name = name)

\* C22: in the assembled application every request with a mutating method
\* to a path that is not exempt passes the CSRF guard before
\* authentication and the handler: a request without matching, non-empty
\* X-CSRF-Token header and csrf_token cookie does not reach the handler.
C22_CsrfBeforeHandlers ==
    (/\ last.op = "app"
     /\ last.method \in CSRF_PROTECTED_METHODS
     /\ ~Exempt(last.path)
     /\ (Falsy(last.header) \/ Falsy(last.cookie)
            \/ last.header # last.cookie))
    => ~last.out.allowed

\* C23: every registered user owns exactly one CustomAI, in every
\* reachable state.
C23_OneCustomAIPerUser ==
    /\ \A u \in users : u.id \in custom_ais
    /\ \A id \in custom_ais : \E u \in users : u.id = id

\* C24: validate_api_key returns a record only after the same call has
\* counted the use, whatever revoke_api_key and delete_api_key do in
\* between: when a call returns a record, its usage update was not
\* skipped and the key is stored and not revoked at that moment.
C24_RecordOnlyForLiveCountedKey ==
    vlast.result = "record"
    => (/\ ~vlast.skipped
        /\ get_by_id(vlast.rec.id) # NoKeyRow
        /\ get_by_id(vlast.rec.id).is_active
        /\ vlast.rec.id \notin revoked)

\* C25: when validate_api_key calls on the same key overlap, an update
\* may be lost, but in every interleaving the usage_count of a stored key
\* never decreases.
C25_UsageCountNeverDecreases ==
    [][\A k \in api_keys :
          RowAfter(k.id) # NoKeyRow
          => RowAfter(k.id).usage_count >= k.usage_count
      ]_vars


\* C26: a validate_api_key call that fails or is cancelled after it began
\* leaves the stored usage_count and last_used_at of the key as they were when
\* the call looked the key up
C26_CancelledCallPersistsNothing ==
    [][\A p \in DOMAIN vpc :
          (vpc[p] # "idle" /\ vpc'[p] = "idle" /\ vlast'.result = "cancelled")
          => /\ RowAfter(vloc[p].rec.id) # NoKeyRow
             /\ RowAfter(vloc[p].rec.id).usage_count = vloc[p].rec.usage_count
             /\ RowAfter(vloc[p].rec.id).last_used_at
                   = vloc[p].rec.last_used_at
      ]_vars

\* C27: refresh_token does not rotate the refresh token: a refresh sets and
\* returns no refresh token and deletes no cookie, and an unexpired refresh
\* token of an existing user is accepted every time it is presented, with a
\* new access token as the only cookie set.
C27_RefreshDoesNotRotate ==
    /\ last.op = "refresh_token"
       => (/\ \A c \in last.set_cookies \cup last.body :
                 c.name # "refresh_token" /\ c.value.type # "refresh"
           /\ last.del_cookies = {})
    /\ (/\ last.op = "refresh_token"
        /\ SignedUnexpired(last.token)
        /\ last.token.type = "refresh"
        /\ get_by_email(last.token.sub) # NoRow)
       => (/\ last.status = 200
           /\ \E a \in last.set_cookies :
                 /\ a.name = "access_token"
                 /\ last.set_cookies = {a}
                 /\ last.body = {a})

\* an access token that get_current_user may accept: signed, unexpired, of
\* type "access", with a subject that is the email of an existing user
ValidAccess(token) ==
    /\ SignedUnexpired(token)
    /\ token.type = "access"
    /\ token.sub # NoSub
    /\ get_by_email(token.sub) # NoRow

\* C28: identity resolution never falls back to the refresh token: a request
\* whose access_token cookie is absent, expired or otherwise invalid is
\* answered 401 with no user whatever its refresh_token cookie is, and a
\* user is returned only from a valid token of type "access".
C28_NoFallbackToRefreshToken ==
    last.op = "get_current_user"
    => /\ ~ValidAccess(last.cookies.access_token)
          => (last.status = 401 /\ last.user = NoUser)
       /\ last.user # NoUser
          => /\ ValidAccess(last.cookies.access_token)
             /\ last.user = get_by_email(last.cookies.access_token.sub).id

\* a request without a usable access token was refused although it carried
\* an unexpired refresh token of an existing user
C28_Witness ==
    /\ last.op = "get_current_user"
    /\ ~ValidAccess(last.cookies.access_token)
    /\ SignedUnexpired(last.cookies.refresh_token)
    /\ last.cookies.refresh_token.type = "refresh"
    /\ get_by_email(last.cookies.refresh_token.sub) # NoRow
    /\ last.status = 401

\* the latest step presented an unexpired, rightly typed token of an existing
\* user whose password has been changed, and the token was accepted
ChangedUserToken ==
    /\ last.op \in SessionOps
    /\ SignedUnexpired(last.token)
    /\ last.token.type = WantedType(last.op)
    /\ get_by_email(last.token.sub) # NoRow
    /\ last.token.sub \in changed

TokenAccepted ==
    /\ last.status = 200
    /\ last.user = get_by_email(last.token.sub).id

\* C29: changing a password ends no session: once change_password has
\* succeeded for a user, an unexpired token of that user is still accepted,
\* an access token by get_current_user and a refresh token by refresh_token;
\* and change_password with a wrong old password answers 400 and leaves the
\* stored password hash as it was.
C29_PasswordChangeKeepsSessions ==
    [][/\ ChangedUserToken' => TokenAccepted'
       /\ (/\ last'.op = "change_password"
           /\ ~verify_password(last'.creds.password,
                               get_by_email(last'.creds.email).password))
          => (last'.status = 400 /\ users' = users)
      ]_vars

\* C30: in the delete and revoke endpoints the ownership check and the
\* operation are two store accesses. A request for a key id that does not
\* exist or belongs to another user is answered 403 at the check and goes no
\* further; 404 "API key not found" is answered only by the operation of a
\* request whose check saw the caller's own key, when the key has been
\* deleted by another request since.
C30_NotFoundOnlyByConcurrentDelete ==
    [][/\ (last'.op \in {DeleteOp, RevokeOp} /\ vpc' = vpc)
          => /\ last'.status = 403
             /\ ~\E k \in api_keys :
                   k.id = last'.api_key_id /\ k.user_id = last'.user
       /\ \A p \in DOMAIN vpc :
             (vpc[p] = "idle" /\ vpc'[p] = "operation")
             => \E k \in api_keys :
                   k.id = vloc'[p].api_key_id /\ k.user_id = vloc'[p].user
       /\ (last'.op \in {DeleteOp, RevokeOp} /\ last'.status = 404)
          => \E p \in DOMAIN vpc :
                /\ vpc[p] = "operation" /\ vpc'[p] = "idle"
                /\ vloc[p].api_key_id = last'.api_key_id
                /\ vloc[p].user = last'.user
                /\ \E k \in vloc[p].seen :
                      k.id = last'.api_key_id /\ k.user_id = last'.user
                /\ get_by_id(last'.api_key_id) = NoKeyRow
      ]_vars

\* a revoke of the caller's own key was answered 404 after another request
\* deleted the key
C30_Witness ==
    /\ last.op = RevokeOp
    /\ last.status = 404
    /\ \E s \in secrets : s.id = last.api_key_id
    /\ get_by_id(last.api_key_id) = NoKeyRow

====
